---- MODULE Spec2Model ----
(***************************************************************************)
(* Story ingestion and content-addressed versioning of pandapages:         *)
(* storyingest.Ingest (pure), and the db.Store operations AdminDraftUpsert *)
(* (one PostgreSQL transaction, READ COMMITTED) and AdminPublish (three    *)
(* autocommit statements), run by concurrent request handlers.             *)
(***************************************************************************)
EXTENDS Integers, Sequences, FiniteSets, TLC

VARIABLES db, proc, calls, log

vars == <<db, proc, calls, log>>

(***************************************************************************)
(* Bounds of the model.                                                    *)
(***************************************************************************)
\* calls started in a behaviour of the concurrent handlers
MaxCalls == 2

\* the same, in a behaviour of one handler that runs its calls in sequence
MaxSeqUpserts == 3
MaxSeqPublishes == 2
MaxSeqPreviews == 1

\* upserts started in a behaviour of the concurrent handlers that only ingest
MaxIdUpserts == 3

\* lines of a generated body
MaxLines == 3

\* upserts started in a behaviour of the handler that ingests chaptered bodies
MaxSecUpserts == 2

\* the calls of the handler that ingests while another publishes, and those
\* of the publishing handler
MaxPubUpserts == 2
MaxPubPublishes == 1

\* request handlers that may run at the same time
Procs == {"h1", "h2"}

\* SQL NULL in an id column, and the empty versionId of a request
NULL == 0

(***************************************************************************)
(* Text.  A markdown text is a sequence of lines; a line is a record that  *)
(* keeps what the parsers look at: its kind, a heading level, a key and a  *)
(* text.  A slug is a sequence of characters.                              *)
(***************************************************************************)
Fence == [k |-> "fence", lv |-> 0, key |-> "", val |-> "---"]
Blank == [k |-> "blank", lv |-> 0, key |-> "", val |-> ""]
KV(key, val) == [k |-> "kv", lv |-> 0, key |-> key, val |-> val]
H(lv, txt) == [k |-> "h", lv |-> lv, key |-> "", val |-> txt]
P(txt) == [k |-> "p", lv |-> 0, key |-> "", val |-> txt]
\* an indented code line
Code(txt) == [k |-> "code", lv |-> 0, key |-> "", val |-> txt]

\* strings.TrimSpace on the title, author and language strings of the requests
TrimSpace(s) ==
  CASE s = " " -> ""
    [] s = " Fox " -> "Fox"
    [] s = " acc1 " -> "acc1"
    [] OTHER -> s

RECURSIVE TrimLeftChars(_)
TrimLeftChars(cs) ==
  IF cs # <<>> /\ Head(cs) = " " THEN TrimLeftChars(Tail(cs)) ELSE cs

RECURSIVE TrimRightChars(_)
TrimRightChars(cs) ==
  IF cs # <<>> /\ cs[Len(cs)] = " " THEN TrimRightChars(SubSeq(cs, 1, Len(cs) - 1)) ELSE cs

\* strings.TrimSpace on a slug
TrimSlug(cs) == TrimRightChars(TrimLeftChars(cs))

LowerAlnum == {"a", "b", "1", "e", "i", "p", "r", "v", "w"}

\* slugRe = ^[a-z0-9]+(?:-[a-z0-9]+)*$ : st is TRUE after a character of
\* [a-z0-9], FALSE at the start and after a hyphen
RECURSIVE SlugMatch(_, _)
SlugMatch(cs, st) ==
  IF cs = <<>> THEN st
  ELSE IF Head(cs) \in LowerAlnum THEN SlugMatch(Tail(cs), TRUE)
  ELSE IF Head(cs) = "-" /\ st THEN SlugMatch(Tail(cs), FALSE)
  ELSE FALSE

\* the variant of slugRe that takes hyphens anywhere: ^[a-z0-9-]+$
ValidateSlugAnyHyphen(slug) ==
  slug # << >> /\ \A i \in 1..Len(slug) : slug[i] \in LowerAlnum \cup {"-"}

ValidateSlug(slug) == SlugMatch(slug, FALSE)

RECURSIVE DropBlank(_)
DropBlank(ls) ==
  IF ls # <<>> /\ Head(ls).k = "blank" THEN DropBlank(Tail(ls)) ELSE ls

\* strings.TrimSpace(in.Markdown) == ""
AllBlank(md) == DropBlank(md) = <<>>

\* yaml.Unmarshal of the frontmatter text into a map; a text that is not a
\* mapping leaves the map empty (the error is discarded)
ParseYaml(ls) ==
  IF \E i \in 1..Len(ls) : ls[i].k \in {"p", "fence"}
  THEN << >>
  ELSE LET keys == {ls[i].key : i \in {j \in 1..Len(ls) : ls[j].k = "kv"}}
       IN  [key \in keys |->
              ls[CHOOSE i \in 1..Len(ls) : ls[i].k = "kv" /\ ls[i].key = key].val]

\* the variant of splitFrontmatter that strips nothing
splitFrontmatterKeepAll(md) == [fm |-> << >>, body |-> md]

\* splitFrontmatter: optional frontmatter between two --- lines
splitFrontmatter(md) ==
  LET s == DropBlank(md)
      closing == {i \in 2..Len(s) : s[i].k = "fence"}
  IN  IF ~(Len(s) >= 2 /\ s[1].k = "fence") THEN [fm |-> << >>, body |-> md]
      ELSE IF Len(s) < 3 THEN [fm |-> << >>, body |-> md]
      ELSE IF closing = {} THEN [fm |-> << >>, body |-> md]
      ELSE LET end == CHOOSE i \in closing : \A j \in closing : i <= j
           IN  [fm |-> ParseYaml(SubSeq(s, 2, end - 1)),
                body |-> SubSeq(s, end + 1, Len(s))]

\* goldmark Convert: deterministic, the HTML of a text is a function of the text
render(md) == <<"html", md>>

\* sha256 of the body bytes, taken as collision free
ContentHash(body) == <<"sha256", body>>

(***************************************************************************)
(* The block parser (goldmark): the top-level blocks of a body, in order.  *)
(* An ATX heading is one line; consecutive text lines are one paragraph; a *)
(* --- line under a paragraph makes it a level-2 setext heading, and is a  *)
(* thematic break (a block without source lines) anywhere else.  Indented   *)
(* lines outside a paragraph, with the blank lines between them, are one   *)
(* code block.                                                             *)
(***************************************************************************)
HeadingBlock(lv, txt) == [type |-> "Heading", lv |-> lv, txt |-> txt, lines |-> << >>]
ParagraphBlock(ls) == [type |-> "Paragraph", lv |-> 0, txt |-> ls[1].val, lines |-> ls]
ThematicBreak == [type |-> "ThematicBreak", lv |-> 0, txt |-> "", lines |-> << >>]

CodeBlock(ls) == [type |-> "CodeBlock", lv |-> 0, txt |-> "", lines |-> ls]

\* the lines of the code block that starts at the head of ls
CodeRun(ls) ==
  LET ends == {n \in 1..Len(ls) :
                 /\ ls[n].k = "code"
                 /\ \A i \in 1..n : ls[i].k \in {"code", "blank"}}
  IN  CHOOSE n \in ends : \A m \in ends : m <= n

FlushPara(para) == IF para = << >> THEN << >> ELSE <<ParagraphBlock(para)>>

RECURSIVE ParseBlocks(_, _)
ParseBlocks(ls, para) ==
  IF ls = << >> THEN FlushPara(para)
  ELSE LET l == Head(ls) IN
    CASE l.k = "blank" -> FlushPara(para) \o ParseBlocks(Tail(ls), << >>)
      [] l.k = "h" -> FlushPara(para) \o <<HeadingBlock(l.lv, l.val)>> \o ParseBlocks(Tail(ls), << >>)
      [] l.k = "fence" ->
           (IF para = << >> THEN <<ThematicBreak>> ELSE <<HeadingBlock(2, para[1].val)>>)
             \o ParseBlocks(Tail(ls), << >>)
      [] l.k = "code" /\ para = << >> ->
           <<CodeBlock(SubSeq(ls, 1, CodeRun(ls)))>>
             \o ParseBlocks(SubSeq(ls, CodeRun(ls) + 1, Len(ls)), << >>)
      [] OTHER -> ParseBlocks(Tail(ls), para \o <<l>>)

\* extractBlockSource: the source lines of a block, "" for a block without lines
extractBlockSource(b) == b.lines

\* textContent: the flattened text of a heading or paragraph
textContent(b) == TrimSpace(b.txt)

Segment(ordinal, loc, md) ==
  [Ordinal |-> ordinal, Locator |-> loc, Markdown |-> md, RenderedHTML |-> render(md)]

\* the variant of the walk in which a skipped block takes an ordinal
RECURSIVE WalkBlocksSkipCounts(_, _, _, _)
WalkBlocksSkipCounts(bs, ordinal, paraN, headIdx) ==
  IF bs = << >> THEN << >>
  ELSE LET x == Head(bs) IN
    CASE x.type = "Heading" ->
           <<Segment(ordinal, [type |-> "heading", h |-> x.lv, index |-> headIdx],
                     <<H(x.lv, textContent(x))>>)>>
             \o WalkBlocksSkipCounts(Tail(bs), ordinal + 1, paraN, headIdx + 1)
      [] x.type = "Paragraph" ->
           <<Segment(ordinal, [type |-> "para", n |-> paraN + 1], extractBlockSource(x))>>
             \o WalkBlocksSkipCounts(Tail(bs), ordinal + 1, paraN + 1, headIdx)
      [] OTHER ->
           IF extractBlockSource(x) = << >>
           THEN WalkBlocksSkipCounts(Tail(bs), ordinal + 1, paraN, headIdx)
           ELSE <<Segment(ordinal, [type |-> "block", kind |-> x.type], extractBlockSource(x))>>
                  \o WalkBlocksSkipCounts(Tail(bs), ordinal + 1, paraN, headIdx)

\* the variant of the walk with one counter for the headings and paragraphs
RECURSIVE WalkBlocksOneCounter(_, _, _, _)
WalkBlocksOneCounter(bs, ordinal, paraN, headIdx) ==
  IF bs = << >> THEN << >>
  ELSE LET x == Head(bs) IN
    CASE x.type = "Heading" ->
           <<Segment(ordinal, [type |-> "heading", h |-> x.lv, index |-> headIdx],
                     <<H(x.lv, textContent(x))>>)>>
             \o WalkBlocksOneCounter(Tail(bs), ordinal + 1, paraN + 1, headIdx + 1)
      [] x.type = "Paragraph" ->
           <<Segment(ordinal, [type |-> "para", n |-> paraN + 1], extractBlockSource(x))>>
             \o WalkBlocksOneCounter(Tail(bs), ordinal + 1, paraN + 1, headIdx + 1)
      [] OTHER ->
           IF extractBlockSource(x) = << >>
           THEN WalkBlocksOneCounter(Tail(bs), ordinal, paraN, headIdx)
           ELSE <<Segment(ordinal, [type |-> "block", kind |-> x.type], extractBlockSource(x))>>
                  \o WalkBlocksOneCounter(Tail(bs), ordinal + 1, paraN, headIdx)

\* the block walk of Ingest, with its three counters
RECURSIVE WalkBlocks(_, _, _, _)
WalkBlocks(bs, ordinal, paraN, headIdx) ==
  IF bs = << >> THEN << >>
  ELSE LET x == Head(bs) IN
    CASE x.type = "Heading" ->
           <<Segment(ordinal, [type |-> "heading", h |-> x.lv, index |-> headIdx],
                     <<H(x.lv, textContent(x))>>)>>
             \o WalkBlocks(Tail(bs), ordinal + 1, paraN, headIdx + 1)
      [] x.type = "Paragraph" ->
           <<Segment(ordinal, [type |-> "para", n |-> paraN + 1], extractBlockSource(x))>>
             \o WalkBlocks(Tail(bs), ordinal + 1, paraN + 1, headIdx)
      [] OTHER ->
           IF extractBlockSource(x) = << >>
           THEN WalkBlocks(Tail(bs), ordinal, paraN, headIdx)
           ELSE <<Segment(ordinal, [type |-> "block", kind |-> x.type], extractBlockSource(x))>>
                  \o WalkBlocks(Tail(bs), ordinal + 1, paraN, headIdx)

FmString(fm, key) == IF key \in DOMAIN fm THEN TrimSpace(fm[key]) ELSE ""

\* the merged frontmatter map: explicit keys first, then the other keys of fm
MergeFrontmatter(fm, title, author, language, sourceUrl) ==
  LET explicit == [title |-> title, author |-> author, language |-> language]
      withUrl == IF sourceUrl # "" THEN explicit @@ [sourceUrl |-> sourceUrl] ELSE explicit
  IN  withUrl @@ fm

\* storyingest.Ingest; err = "" is success
Ingest(in) ==
  LET slug == TrimSlug(in.Slug)
      title == TrimSpace(in.Title)
      author0 == TrimSpace(in.Author)
      sp == splitFrontmatter(in.Markdown)
      fm == sp.fm
      body == sp.body
      \* the fallback to the frontmatter title, after the check of the title
      title1 == IF title = "" THEN FmString(fm, "title") ELSE title
      author == IF author0 = "" THEN FmString(fm, "author") ELSE author0
      lang0 == IF in.Language = "" THEN FmString(fm, "language") ELSE in.Language
      language == IF lang0 = "" THEN "en-GB" ELSE lang0
      sourceUrl == IF in.SourceURL = "" THEN FmString(fm, "sourceUrl") ELSE in.SourceURL
      failed(msg) == [err |-> msg]
  IN  IF title = "" THEN failed("title is required")
      ELSE IF slug = << >> THEN failed("slug is required")
      ELSE IF ~ValidateSlug(slug) THEN failed("invalid slug")
      ELSE IF AllBlank(in.Markdown) THEN failed("markdown is required")
      ELSE [err |-> "",
            Slug |-> slug,
            Title |-> title1,
            Author |-> author,
            Language |-> language,
            \* the source map has the url when there is one; nil rights are the empty map
            Source |-> IF TrimSpace(sourceUrl) # "" THEN [url |-> TrimSpace(sourceUrl)] ELSE << >>,
            Rights |-> in.Rights,
            Frontmatter |-> MergeFrontmatter(fm, title1, author, language, TrimSpace(sourceUrl)),
            Markdown |-> body,
            RenderedHTML |-> render(body),
            ContentHash |-> ContentHash(body),
            Segments |-> WalkBlocks(ParseBlocks(body, << >>), 1, 0, 0)]

\* render with a renderer whose Convert returns an error on the texts in fails
renderOrError(md, fails) ==
  IF md \in fails THEN [html |-> "", err |-> "render failed"]
  ELSE [html |-> render(md), err |-> ""]

\* Ingest with that renderer: the error of the full render is returned, the
\* error of the render of a segment is discarded (h, _ := render(md)) and the
\* segment keeps the empty text that render returned
IngestWithRenderer(in, fails) ==
  LET out == Ingest(in)
  IN  IF out.err # "" THEN out
      ELSE IF renderOrError(out.Markdown, fails).err # ""
      THEN [err |-> renderOrError(out.Markdown, fails).err]
      ELSE [out EXCEPT !.Segments =
              [i \in DOMAIN out.Segments |->
                 [out.Segments[i] EXCEPT
                    !.RenderedHTML = renderOrError(out.Segments[i].Markdown, fails).html]]]

(***************************************************************************)
(* Requests.                                                               *)
(***************************************************************************)
BodyFox == <<H(1, "Fox"), Blank, P("Once upon a time.")>>
BodyChapters == <<P("Preface"), H(2, "One"), P("Long ago.")>>
FmTitle == <<KV("title", "Tale")>>

\* a manuscript: the body, under a frontmatter block when there is one
Manuscript(fmLines, body) ==
  IF fmLines = << >> THEN body ELSE <<Fence>> \o fmLines \o <<Fence>> \o body

\* <<frontmatter lines, body>> of the manuscripts of the model
ManuscriptParts ==
  { << << >>, BodyFox >>, << FmTitle, BodyFox >>, << << >>, BodyChapters >> }

SlugA == <<"a">>
SlugB == <<"b", "-", "1">>
StoryKeys == { <<"acc1", SlugA>>, <<"acc1", SlugB>>, <<"acc2", SlugA>> }

DraftRequest(slug, title, author, md) ==
  [Slug |-> slug, Title |-> title, Author |-> author, Markdown |-> md,
   Language |-> "", SourceURL |-> "", Rights |-> << >>]

\* accountID and model.AdminDraftUpsertRequest of the calls of the concurrent
\* handlers: two stories of one account, the same body with and without
\* frontmatter, and another body
UpsertCalls ==
  { <<"acc1", DraftRequest(SlugA, "Fox", "", Manuscript(<< >>, BodyFox))>>,
    <<"acc1", DraftRequest(<<" ", "a">>, " Fox ", "Ann", Manuscript(FmTitle, BodyFox))>>,
    <<"acc1", DraftRequest(SlugA, "Owl", "", Manuscript(<< >>, BodyChapters))>>,
    <<"acc1", DraftRequest(SlugB, "Fox", "", Manuscript(<< >>, BodyFox))>> }

\* the calls of the sequential handler: also another account, and requests
\* that fail validation
SeqUpsertCalls ==
  UpsertCalls \cup
  { <<"acc2", DraftRequest(SlugA, "Fox", "", Manuscript(<< >>, BodyFox))>>,
    <<"acc1", DraftRequest(<<"a", "-">>, "Fox", "", Manuscript(<< >>, BodyFox))>>,
    <<" ", DraftRequest(SlugA, "Fox", "", Manuscript(<< >>, BodyFox))>> }

\* the calls of the handlers that only ingest: one slug under two accounts
IdUpsertCalls ==
  { <<"acc1", DraftRequest(SlugA, "Fox", "", Manuscript(<< >>, BodyFox))>>,
    <<"acc2", DraftRequest(SlugA, "Fox", "", Manuscript(<< >>, BodyFox))>> }

\* the calls of the handler that ingests while another publishes: one story,
\* a body, and that body and another one under another title, author,
\* language, source and rights
PubUpsertCalls ==
  { <<"acc1", DraftRequest(SlugA, "Fox", "", Manuscript(<< >>, BodyFox))>> }
    \cup { <<"acc1", [DraftRequest(SlugA, "Owl", "Ann", Manuscript(<< >>, b))
                        EXCEPT !.Language = "de", !.SourceURL = "http://x",
                               !.Rights = [license |-> "cc"]]>> :
             b \in {BodyFox, BodyChapters} }

\* a body with a title, a chapter, and a chapter whose heading has no text
BodyTwoChapters ==
  <<H(1, "Fox"), H(2, "One"), P("Long ago."), H(2, ""), P("The end.")>>

\* a body with a level-1 heading inside its chapter
BodyTitleInChapter == <<H(2, "One"), H(1, "Fox"), P("Long ago.")>>

\* a frontmatter with the four keys that Ingest resolves and another key
FmAll ==
  <<KV("title", "Tale"), KV("author", "Bea"), KV("language", "fr"),
    KV("sourceUrl", "http://y"), KV("series", "Tales")>>

\* a frontmatter with a language
FmLanguage == <<KV("language", "fr")>>

\* the calls of the handler that ingests chaptered bodies, and a manuscript
\* with a frontmatter language without and with a language of the request
SecUpsertCalls ==
  { <<"acc1", DraftRequest(SlugA, "Fox", "", Manuscript(<< >>, b))>> :
      b \in {BodyFox, BodyChapters, BodyTwoChapters, BodyTitleInChapter} }
    \cup { <<"acc1", [DraftRequest(SlugB, "Fox", "", Manuscript(FmLanguage, BodyFox))
                        EXCEPT !.Language = l]>> : l \in {"", " ", "de"} }

\* the lines of the generated bodies, and the bodies
BodyLines == {H(1, "Fox"), H(2, "One"), P("Once."), Code("x"), Blank, Fence}

Bodies == UNION {[1..n -> BodyLines] : n \in 0..MaxLines}

FmBlankTitle == <<KV("title", " ")>>

IngestSlugs ==
  { SlugA, SlugB, <<" ", "a", " ">>, << >>, <<" ">>, <<"-", "a">>, <<"a", "-">>,
    <<"a", "-", "-", "b">>, <<"A">>, <<"a", " ", "b">> }

\* calls of AdminDraftUpsert with every slug, a blank title or a blank markdown
RejectCalls ==
  { <<"acc1", DraftRequest(sl, "Fox", "", Manuscript(<< >>, BodyFox))>> : sl \in IngestSlugs }
    \cup { <<"acc1", DraftRequest(SlugA, " ", "", Manuscript(FmTitle, BodyFox))>>,
           <<"acc1", DraftRequest(SlugA, "Fox", "", <<Blank>>)>> }

\* storyingest.Input of the calls of Ingest: every generated body under one
\* slug and title, and every slug and title with and without a frontmatter title
IngestInputs ==
  { DraftRequest(SlugA, "Fox", "", b) : b \in Bodies }
    \cup { DraftRequest(sl, t, "", Manuscript(fm, BodyFox)) :
             sl \in IngestSlugs, t \in {"Fox", " Fox ", "", " "},
             fm \in {<< >>, FmTitle, FmBlankTitle} }
    \cup { DraftRequest(SlugA, "Fox", "", <<Blank>>) }
    \cup { [DraftRequest(SlugA, "Fox", a, Manuscript(fm, BodyFox))
              EXCEPT !.Language = l, !.SourceURL = u] :
             a \in {"", "Ann"}, l \in {"", "de"}, u \in {"", "http://x"},
             fm \in {FmLanguage, FmAll} }

\* storyingest.Input of the calls of Ingest with a renderer that can fail
RenderInputs == { DraftRequest(SlugA, "Fox", "", b) : b \in Bodies }

\* the texts on which the renderer fails during a call: none, the body, or
\* the markdown of one segment
RenderFaults(in) ==
  LET out == Ingest(in)
  IN  IF out.err # "" THEN {{}}
      ELSE {{}} \cup {{out.Markdown}}
             \cup {{out.Segments[i].Markdown} : i \in DOMAIN out.Segments}

\* the storyingest.Input that AdminDraftUpsert builds from a request
IngestInput(req) ==
  [Slug |-> TrimSlug(req.Slug),
   Title |-> TrimSpace(req.Title),
   Author |-> TrimSpace(req.Author),
   Markdown |-> req.Markdown,
   Language |-> IF TrimSpace(req.Language) # "" THEN TrimSpace(req.Language) ELSE "en-GB",
   SourceURL |-> TrimSpace(req.SourceURL),
   Rights |-> req.Rights]

(***************************************************************************)
(* The store.  db is the committed state of the four tables; every handler *)
(* in a transaction has a write set w that becomes visible at its commit.  *)
(***************************************************************************)
EmptyDb == [stories |-> {}, versions |-> {}, sections |-> {}, segments |-> {}]

NoRequest == DraftRequest(<< >>, "", "", << >>)
\* a response: the error (with the statement that returned it) or the ids
NoResponse ==
  [ok |-> FALSE, err |-> "", at |-> "", StoryID |-> NULL, StoryVersionID |-> NULL, Version |-> 0]

Idle ==
  [pc |-> "idle", op |-> "none", account |-> "", req |-> NoRequest,
   slug |-> << >>, versionArg |-> NULL,
   storyID |-> NULL, existingVersionID |-> NULL, existingVersion |-> 0,
   nextVersion |-> 0, versionID |-> NULL,
   sectionIDByStart |-> << >>, currentChapterID |-> NULL, i |-> 1,
   w |-> EmptyDb, aborted |-> FALSE, raced |-> FALSE, again |-> FALSE,
   fails |-> {}, res |-> NoResponse]

InTx(p) == proc[p].pc \in {"upsertStory", "hashLookup", "hitDraft", "nextVersion", "insertVersion",
                           "sections", "segments", "draft", "contributors", "commit"}

Ing(p) == Ingest(IngestInput(proc[p].req))

\* ids in use: gen_random_uuid() returns an id that no row has
UsedIds ==
  LET tables(d) == d.stories \cup d.versions \cup d.sections
  IN  {r.id : r \in tables(db)} \cup UNION {{r.id : r \in tables(proc[q].w)} : q \in Procs}

FreshId == CHOOSE n \in 1..(Cardinality(UsedIds) + 1) : n \notin UsedIds

\* rows written to a table: a stories row replaces the row with its id
Put(set, table, rows) ==
  IF table = "stories"
  THEN {r \in set : \A x \in rows : x.id # r.id} \cup rows
  ELSE set \cup rows

\* the same statement run on s.db, outside the transaction: written at once
DbExec(committed, w, table, rows) ==
  [committed |-> [committed EXCEPT ![table] = Put(@, table, rows)], w |-> w]

\* tx.ExecContext / tx.QueryRowContext of an INSERT or UPDATE: the rows go to
\* the write set of the transaction
TxExec(committed, w, table, rows) ==
  [committed |-> committed, w |-> [w EXCEPT ![table] = Put(@, table, rows)]]

\* a table as a statement of the transaction of p sees it: the committed rows
\* and its own writes (its own version of a story row replaces the committed one)
TxView(p, table) ==
  IF table = "stories"
  THEN {r \in db.stories : \A x \in proc[p].w.stories : x.id # r.id} \cup proc[p].w.stories
  ELSE db[table] \cup proc[p].w[table]

\* tx.Commit
Commit(committed, w) ==
  [t \in DOMAIN committed |-> Put(committed[t], t, w[t])]

\* the variant of Rollback that keeps the writes
RollbackKeeps(committed, w) == Commit(committed, w)

\* tx.Rollback (deferred): the write set is dropped
Rollback(committed, w) == committed

\* the variant in which the story upsert waits for no transaction
LockedByNone(p, account, slug) == FALSE

\* the story row of (account, slug) is write-locked by a transaction other than p:
\* it was inserted or updated by a transaction that has not ended
LockedByOther(p, account, slug) ==
  \E q \in Procs \ {p} : \E r \in proc[q].w.stories : r.account = account /\ r.slug = slug

(***************************************************************************)
(* AdminDraftUpsert, one action per statement.                             *)
(***************************************************************************)
\* the call of p, ended with response res
Ended(p, res) ==
  [Idle EXCEPT !.pc = "done", !.op = proc[p].op, !.account = proc[p].account,
               !.req = proc[p].req, !.slug = proc[p].slug,
               !.versionArg = proc[p].versionArg, !.raced = proc[p].raced,
               !.again = proc[p].again,
               !.existingVersionID = proc[p].existingVersionID, !.res = res]

Failed(p, msg) == Ended(p, [NoResponse EXCEPT !.err = msg, !.at = proc[p].pc])

\* validation and Ingest, then BeginTx
CallUpsert(p, requests) ==
  /\ proc[p].pc = "idle"
  /\ \E c \in requests :
       LET account == TrimSpace(c[1])
           ing == Ingest(IngestInput(c[2]))
           \* raced (history): a transaction on the same story is open at the call
           called == [Idle EXCEPT !.op = "upsert", !.account = account, !.req = c[2],
                                  !.raced = ing.err = "" /\ LockedByOther(p, account, ing.Slug)]
       IN  proc' = [proc EXCEPT ![p] =
             IF account = "" THEN [called EXCEPT !.pc = "done", !.res.err = "account required"]
             ELSE IF ing.err # "" THEN [called EXCEPT !.pc = "done", !.res.err = ing.err]
             ELSE [called EXCEPT !.pc = "upsertStory"]]
  /\ calls' = [calls EXCEPT !.upsert = @ + 1]
  /\ UNCHANGED <<db, log>>

\* the variant of the conflict target before slugs were scoped to accounts
StoryConflictSlugOnly(stories, account, slug) == {r \in stories : r.slug = slug}

\* ON CONFLICT (account_id, slug): the row that the insert conflicts with
StoryConflict(stories, account, slug) ==
  {r \in stories : r.account = account /\ r.slug = slug}

\* the variant of the update that leaves the row of a published story alone
StoryUpdateUnpublishedOnly(r, ing) ==
  IF r.published_version_id # NULL THEN r
  ELSE [r EXCEPT !.title = ing.Title, !.author = TrimSpace(ing.Author),
                 !.language = ing.Language, !.source = ing.Source, !.rights = ing.Rights]

\* DO UPDATE SET title, author, language, source, rights = EXCLUDED's (and
\* updated_at, which no operation of the model reads)
StoryUpdate(r, ing) ==
  [r EXCEPT !.title = ing.Title, !.author = TrimSpace(ing.Author),
            !.language = ing.Language, !.source = ing.Source, !.rights = ing.Rights]

\* INSERT INTO stories ... ON CONFLICT (account_id, slug) DO UPDATE ... RETURNING id
UpsertStory(p) ==
  /\ proc[p].pc = "upsertStory"
  /\ ~LockedByOther(p, proc[p].account, Ing(p).Slug)
  /\ LET ing == Ing(p)
         hit == StoryConflict(TxView(p, "stories"), proc[p].account, ing.Slug)
         row == IF hit = {}
                THEN [id |-> FreshId, account |-> proc[p].account, slug |-> ing.Slug,
                      title |-> ing.Title, author |-> TrimSpace(ing.Author),
                      language |-> ing.Language,
                      source |-> ing.Source, rights |-> ing.Rights,
                      draft_version_id |-> NULL, published_version_id |-> NULL,
                      is_published |-> FALSE]
                ELSE StoryUpdate(CHOOSE r \in hit : TRUE, ing)
         x == TxExec(db, proc[p].w, "stories", {row})
     IN  /\ db' = x.committed
         /\ proc' = [proc EXCEPT ![p].w = x.w, ![p].storyID = row.id, ![p].pc = "hashLookup"]
  /\ UNCHANGED <<calls, log>>

\* the variant of the lookup without the story_id condition
HashLookupAnyStory(versions, storyID, hash) == {v \in versions : v.content_hash = hash}

\* the variant of the lookup that never finds the content
HashLookupMiss(versions, storyID, hash) == {}

\* SELECT id, version, rendered_html FROM story_versions
\*   WHERE story_id = $1 AND content_hash = $2 LIMIT 1
HashLookupRows(versions, storyID, hash) ==
  {v \in versions : v.story_id = storyID /\ v.content_hash = hash}

HashLookup(p) ==
  /\ proc[p].pc = "hashLookup"
  /\ LET found == HashLookupRows(TxView(p, "versions"), proc[p].storyID, Ing(p).ContentHash)
     IN  IF found = {}
         THEN proc' = [proc EXCEPT ![p].pc = "nextVersion"]
         ELSE \E v \in found :
                proc' = [proc EXCEPT ![p].existingVersionID = v.id,
                                     ![p].existingVersion = v.version,
                                     ![p].pc = "hitDraft"]
  /\ UNCHANGED <<db, calls, log>>

\* the variant that sets the published pointer too
SetDraftPublishes(p, versionID) ==
  LET rows == {[r EXCEPT !.draft_version_id = versionID, !.published_version_id = versionID,
                         !.is_published = TRUE] :
                 r \in {r \in TxView(p, "stories") : r.id = proc[p].storyID}}
      x == TxExec(db, proc[p].w, "stories", rows)
  IN  /\ db' = x.committed
      /\ proc' = [proc EXCEPT ![p].w = x.w, ![p].pc = "contributors"]

\* the variant that leaves a draft pointer that is set where it is
SetDraftOnce(p, versionID) ==
  LET rows == {[r EXCEPT !.draft_version_id = IF @ = NULL THEN versionID ELSE @] :
                 r \in {r \in TxView(p, "stories") : r.id = proc[p].storyID}}
      x == TxExec(db, proc[p].w, "stories", rows)
  IN  /\ db' = x.committed
      /\ proc' = [proc EXCEPT ![p].w = x.w, ![p].pc = "contributors"]

\* the variant that also rewrites the frontmatter of the version with the
\* frontmatter of this ingest
SetDraftRewrites(p, versionID) ==
  LET rows == {[r EXCEPT !.draft_version_id = versionID] :
                 r \in {r \in TxView(p, "stories") : r.id = proc[p].storyID}}
      x == TxExec(db, proc[p].w, "stories", rows)
      vs == {[v EXCEPT !.frontmatter = Ing(p).Frontmatter] :
               v \in {v \in TxView(p, "versions") : v.id = versionID}}
      y == TxExec(x.committed, x.w, "versions", vs)
  IN  /\ db' = y.committed
      /\ proc' = [proc EXCEPT ![p].w = y.w, ![p].pc = "contributors"]

\* UPDATE stories SET draft_version_id = $2 WHERE id = $1
SetDraft(p, versionID) ==
  LET rows == {[r EXCEPT !.draft_version_id = versionID] :
                 r \in {r \in TxView(p, "stories") : r.id = proc[p].storyID}}
      x == TxExec(db, proc[p].w, "stories", rows)
  IN  /\ db' = x.committed
      /\ proc' = [proc EXCEPT ![p].w = x.w, ![p].pc = "contributors"]

HitDraft(p) ==
  /\ proc[p].pc = "hitDraft"
  /\ SetDraft(p, proc[p].existingVersionID)
  /\ UNCHANGED <<calls, log>>

Max(S) == CHOOSE n \in S : \A m \in S : m <= n

\* the variant that skips a number
NextVersionSkips(versions, storyID) ==
  Max({v.version : v \in {v \in versions : v.story_id = storyID}} \cup {0}) + 2

\* SELECT COALESCE(MAX(version), 0) + 1 FROM story_versions WHERE story_id = $1
NextVersion(versions, storyID) ==
  Max({v.version : v \in {v \in versions : v.story_id = storyID}} \cup {0}) + 1

ReadNextVersion(p) ==
  /\ proc[p].pc = "nextVersion"
  /\ proc' = [proc EXCEPT ![p].nextVersion = NextVersion(TxView(p, "versions"), proc[p].storyID),
                          ![p].pc = "insertVersion"]
  /\ UNCHANGED <<db, calls, log>>

\* the chapters of the segments: one for each level-2 heading segment
LocType(loc) == IF "type" \in DOMAIN loc THEN loc.type ELSE ""
LocH(loc) == IF "h" \in DOMAIN loc THEN loc.h ELSE 0

ChapterN(n) == <<"Chapter 1", "Chapter 2", "Chapter 3", "Chapter 4">>[n]

\* headingText: the markdown of a heading segment without its # marks
headingText(md) == TrimSpace(md[1].val)

\* the variant that takes a heading of any level as the start of a chapter
RECURSIVE ChaptersAnyHeading(_, _)
ChaptersAnyHeading(segs, chapters) ==
  IF segs = << >> THEN chapters
  ELSE LET seg == Head(segs) IN
    IF LocType(seg.Locator) = "heading"
    THEN LET t == headingText(seg.Markdown)
         IN  ChaptersAnyHeading(Tail(segs), Append(chapters,
               [StartSegOrdinal |-> seg.Ordinal,
                Title |-> IF t = "" THEN ChapterN(Len(chapters) + 1) ELSE t,
                SectionOrdinal |-> Len(chapters) + 1]))
    ELSE ChaptersAnyHeading(Tail(segs), chapters)

RECURSIVE Chapters(_, _)
Chapters(segs, chapters) ==
  IF segs = << >> THEN chapters
  ELSE LET seg == Head(segs) IN
    IF LocType(seg.Locator) = "heading" /\ LocH(seg.Locator) = 2
    THEN LET t == headingText(seg.Markdown)
         IN  Chapters(Tail(segs), Append(chapters,
               [StartSegOrdinal |-> seg.Ordinal,
                Title |-> IF t = "" THEN ChapterN(Len(chapters) + 1) ELSE t,
                SectionOrdinal |-> Len(chapters) + 1]))
    ELSE Chapters(Tail(segs), chapters)

NullTitle == "<NULL>"

\* the range loops over chapters and over ing.Segments: i is the last element
LoopEnds(i, n) == i >= n

\* UNIQUE(story_id, version), UNIQUE(story_id, content_hash)
VersionConflict(versions, row) ==
  \E v \in versions : /\ v.story_id = row.story_id
                      /\ (v.version = row.version \/ v.content_hash = row.content_hash)

\* INSERT INTO story_versions ... RETURNING id; it waits for a transaction
\* that has inserted, and not committed, a row with one of its unique keys
InsertVersion(p) ==
  /\ proc[p].pc = "insertVersion"
  /\ ~\E q \in Procs \ {p} : \E v \in proc[q].w.versions :
        /\ v.story_id = proc[p].storyID
        /\ (v.version = proc[p].nextVersion \/ v.content_hash = Ing(p).ContentHash)
  /\ LET ing == Ing(p)
         row == [id |-> FreshId, story_id |-> proc[p].storyID, version |-> proc[p].nextVersion,
                 frontmatter |-> ing.Frontmatter, markdown |-> ing.Markdown,
                 rendered_html |-> ing.RenderedHTML, content_hash |-> ing.ContentHash]
         x == TxExec(db, proc[p].w, "versions", {row})
     IN  IF VersionConflict(TxView(p, "versions"), row)
         THEN /\ db' = Rollback(db, proc[p].w)
              /\ proc' = [proc EXCEPT ![p] = Failed(p, "unique violation")]
         ELSE /\ db' = x.committed
              /\ proc' = [proc EXCEPT ![p].w = x.w, ![p].versionID = row.id,
                                      ![p].pc = "sections", ![p].i = 1]
  /\ UNCHANGED <<calls, log>>

\* INSERT INTO story_sections ... RETURNING id: the one generic section, or
\* the section of chapter i
InsertSection(p) ==
  /\ proc[p].pc = "sections"
  /\ LET segs == Ing(p).Segments
         chapters == Chapters(segs, << >>)
         i == proc[p].i
         row == IF chapters = << >>
                THEN [id |-> FreshId, story_version_id |-> proc[p].versionID,
                      kind |-> "section", title |-> NullTitle, ordinal |-> 1]
                ELSE [id |-> FreshId, story_version_id |-> proc[p].versionID,
                      kind |-> "chapter", title |-> chapters[i].Title,
                      ordinal |-> chapters[i].SectionOrdinal]
         start == IF chapters = << >> THEN 1 ELSE chapters[i].StartSegOrdinal
         last == chapters = << >> \/ LoopEnds(i, Len(chapters))
         x == TxExec(db, proc[p].w, "sections", {row})
     IN  /\ db' = x.committed
         /\ proc' = [proc EXCEPT
              ![p].w = x.w,
              ![p].sectionIDByStart = (start :> row.id) @@ @,
              ![p].i = IF last THEN 1 ELSE i + 1,
              ![p].pc = IF ~last THEN "sections" ELSE IF segs = << >> THEN "draft" ELSE "segments"]
  /\ UNCHANGED <<calls, log>>

\* the section of segment seg, and the current chapter after it
SectionArg(seg, chapters, sectionIDByStart, currentChapterID) ==
  LET loc == seg.Locator IN
  IF chapters = << >> THEN [arg |-> sectionIDByStart[1], cur |-> currentChapterID]
  ELSE IF LocType(loc) = "heading" /\ LocH(loc) = 1 THEN [arg |-> NULL, cur |-> currentChapterID]
  ELSE IF LocType(loc) = "heading" /\ LocH(loc) = 2
       THEN IF seg.Ordinal \in DOMAIN sectionIDByStart
            THEN [arg |-> sectionIDByStart[seg.Ordinal], cur |-> sectionIDByStart[seg.Ordinal]]
            ELSE [arg |-> NULL, cur |-> currentChapterID]
  ELSE [arg |-> currentChapterID, cur |-> currentChapterID]

\* INSERT INTO story_segments ... for segment i
InsertSegment(p) ==
  /\ proc[p].pc = "segments"
  /\ LET segs == Ing(p).Segments
         i == proc[p].i
         seg == segs[i]
         sa == SectionArg(seg, Chapters(segs, << >>), proc[p].sectionIDByStart,
                          proc[p].currentChapterID)
         row == [story_version_id |-> proc[p].versionID, section_id |-> sa.arg,
                 ordinal |-> seg.Ordinal, locator |-> seg.Locator, markdown |-> seg.Markdown,
                 rendered_html |-> seg.RenderedHTML]
         x == TxExec(db, proc[p].w, "segments", {row})
     IN  /\ db' = x.committed
         /\ proc' = [proc EXCEPT
              ![p].w = x.w,
              ![p].currentChapterID = sa.cur,
              ![p].i = i + 1,
              ![p].pc = IF LoopEnds(i, Len(segs)) THEN "draft" ELSE "segments"]
  /\ UNCHANGED <<calls, log>>

\* UPDATE stories SET draft_version_id = $2 WHERE id = $1 (the new version)
Draft(p) ==
  /\ proc[p].pc = "draft"
  /\ SetDraft(p, proc[p].versionID)
  /\ UNCHANGED <<calls, log>>

\* the contributor statements: their errors are discarded, and a failed
\* statement leaves the transaction aborted
Contributors(p) ==
  /\ proc[p].pc = "contributors"
  /\ \E fails \in IF TrimSpace(Ing(p).Author) # "" THEN {FALSE, TRUE} ELSE {FALSE} :
       proc' = [proc EXCEPT ![p].aborted = fails, ![p].pc = "commit"]
  /\ UNCHANGED <<db, calls, log>>

\* the variant of Commit that commits a transaction in which a statement failed
CommitIgnoresFailure(aborted) == FALSE

\* tx.Commit returns an error for a transaction that a failed statement has
\* aborted: the database ends it with a rollback
CommitFails(aborted) == aborted

\* tx.Commit and the response
CommitTx(p) ==
  /\ proc[p].pc = "commit"
  /\ IF CommitFails(proc[p].aborted)
     THEN /\ db' = Rollback(db, proc[p].w)
          /\ proc' = [proc EXCEPT ![p] = Failed(p, "commit failed")]
          /\ log' = log
     ELSE LET hit == proc[p].existingVersionID # NULL
              res == [ok |-> TRUE, err |-> "", StoryID |-> proc[p].storyID,
                      StoryVersionID |-> IF hit THEN proc[p].existingVersionID ELSE proc[p].versionID,
                      Version |-> IF hit THEN proc[p].existingVersion ELSE proc[p].nextVersion]
          IN  /\ db' = Commit(db, proc[p].w)
              /\ proc' = [proc EXCEPT ![p] = Ended(p, res)]
              /\ log' = log \cup {[account |-> proc[p].account, slug |-> Ing(p).Slug,
                                   markdown |-> proc[p].req.Markdown, res |-> res]}
  /\ UNCHANGED calls

\* a statement of the transaction (or BeginTx, or Commit) fails: the
\* connection is lost or the query deadline expires; the deferred Rollback runs
FailTx(p) ==
  /\ InTx(p)
  /\ db' = Rollback(db, proc[p].w)
  /\ proc' = [proc EXCEPT ![p] = Failed(p, "storage error")]
  /\ UNCHANGED <<calls, log>>

(***************************************************************************)
(* AdminPreview: Ingest of the markdown under a fixed slug and title; it   *)
(* reads and writes no table.                                              *)
(***************************************************************************)
\* model.AdminPreviewRequest of the calls: the manuscripts, and a blank text
PreviewCalls ==
  { Manuscript(x[1], x[2]) : x \in ManuscriptParts } \cup { <<Blank>> }

PreviewInput(md) ==
  [Slug |-> <<"p", "r", "e", "v", "i", "e", "w">>, Title |-> "Preview", Author |-> "",
   Markdown |-> md, Language |-> "en-GB", SourceURL |-> "", Rights |-> << >>]

\* the variant that copies the segments without their locators
AdminSegmentsNoLocator(segs) ==
  [i \in 1..Len(segs) |->
     [Ordinal |-> segs[i].Ordinal, Locator |-> << >>, RenderedHTML |-> segs[i].RenderedHTML]]

\* model.AdminSegment of each segment of the output
AdminSegments(segs) ==
  [i \in 1..Len(segs) |->
     [Ordinal |-> segs[i].Ordinal, Locator |-> segs[i].Locator,
      RenderedHTML |-> segs[i].RenderedHTML]]

AdminPreview(md) ==
  LET out == Ingest(PreviewInput(md))
  IN  IF out.err # "" THEN [NoResponse EXCEPT !.err = out.err]
      ELSE [RenderedHTML |-> out.RenderedHTML, Segments |-> AdminSegments(out.Segments)]
             @@ [NoResponse EXCEPT !.ok = TRUE]

CallPreview(p, requests) ==
  /\ proc[p].pc = "idle"
  /\ \E md \in requests :
       proc' = [proc EXCEPT ![p] =
         [Idle EXCEPT !.op = "preview", !.pc = "done", !.req.Markdown = md,
                      !.res = AdminPreview(md)]]
  /\ calls' = [calls EXCEPT !.preview = @ + 1]
  /\ UNCHANGED <<db, log>>

\* a call of storyingest.Ingest by itself
CallIngest(p, inputs) ==
  /\ proc[p].pc = "idle"
  /\ \E in \in inputs :
       proc' = [proc EXCEPT ![p] =
         [Idle EXCEPT !.op = "ingest", !.pc = "done", !.req = in, !.res = Ingest(in)]]
  /\ UNCHANGED <<db, calls, log>>

\* a call of Ingest during which the renderer fails on some texts
CallIngestWithRenderer(p, inputs) ==
  /\ proc[p].pc = "idle"
  /\ \E in \in inputs : \E fails \in RenderFaults(in) :
       proc' = [proc EXCEPT ![p] =
         [Idle EXCEPT !.op = "ingest", !.pc = "done", !.req = in, !.fails = fails,
                      !.res = IngestWithRenderer(in, fails)]]
  /\ UNCHANGED <<db, calls, log>>

(***************************************************************************)
(* AdminPublish: three statements on s.db, each in its own transaction.    *)
(***************************************************************************)
\* accountID, slug and versionID of the calls: each of the story keys with the
\* id of every version, and with an empty versionID
PublishCalls(keys) ==
  { <<k[1], k[2], v>> : k \in keys, v \in {NULL} \cup {r.id : r \in db.versions} }

\* the same, and an empty account, an empty slug and ids that are no version's
SeqPublishCalls ==
  PublishCalls(StoryKeys)
    \cup { <<" ", SlugA, v>> : v \in {r.id : r \in db.versions} }
    \cup { <<"acc1", <<" ">>, v>> : v \in {r.id : r \in db.versions} }
    \cup { <<"acc1", SlugA, v>> : v \in {r.id : r \in db.stories} }

CallPublish(p, requests) ==
  /\ proc[p].pc = "idle"
  /\ \E c \in requests :
       LET \* again (history): the version is the published version of the story
           \* at the call
           called == [Idle EXCEPT !.op = "publish", !.account = TrimSpace(c[1]),
                                  !.slug = TrimSlug(c[2]), !.versionArg = c[3],
                                  !.again = \E s \in db.stories :
                                              /\ s.account = TrimSpace(c[1])
                                              /\ s.slug = TrimSlug(c[2])
                                              /\ c[3] # NULL
                                              /\ s.published_version_id = c[3]]
       IN  proc' = [proc EXCEPT ![p] =
             IF called.account = "" \/ called.slug = << >> \/ called.versionArg = NULL
             THEN [called EXCEPT !.pc = "done",
                                 !.res.err = "account, slug and versionId required"]
             ELSE [called EXCEPT !.pc = "pubStory"]]
  /\ calls' = [calls EXCEPT !.publish = @ + 1]
  /\ UNCHANGED <<db, log>>

\* SELECT id FROM stories WHERE account_id = $1 AND slug = $2
PubStory(p) ==
  /\ proc[p].pc = "pubStory"
  /\ LET found == {r \in db.stories : r.account = proc[p].account /\ r.slug = proc[p].slug}
     IN  IF found = {}
         THEN proc' = [proc EXCEPT ![p] = Failed(p, "no rows")]
         ELSE \E r \in found :
                proc' = [proc EXCEPT ![p].storyID = r.id, ![p].pc = "pubVersion"]
  /\ UNCHANGED <<db, calls, log>>

\* the variant of the ownership check that looks at the version id alone
OwnedVersionsAnyStory(versions, versionID, storyID) == {v \in versions : v.id = versionID}

\* SELECT id FROM story_versions WHERE id = $1 AND story_id = $2
OwnedVersions(versions, versionID, storyID) ==
  {v \in versions : v.id = versionID /\ v.story_id = storyID}

PubVersion(p) ==
  /\ proc[p].pc = "pubVersion"
  /\ proc' = [proc EXCEPT ![p] =
       IF OwnedVersions(db.versions, proc[p].versionArg, proc[p].storyID) = {}
       THEN Failed(p, "no rows")
       ELSE [proc[p] EXCEPT !.pc = "pubUpdate"]]
  /\ UNCHANGED <<db, calls, log>>

\* the variant of the update that sets the pointer and not the flag
PublishedRowPointerOnly(r, versionID) == [r EXCEPT !.published_version_id = versionID]

\* the variant of the update that moves the draft pointer too
PublishedRowMovesDraft(r, versionID) ==
  [r EXCEPT !.published_version_id = versionID, !.is_published = TRUE,
            !.draft_version_id = versionID]

\* SET published_version_id = $2, is_published = true (and updated_at, which
\* no operation of the model reads)
PublishedRow(r, versionID) ==
  [r EXCEPT !.published_version_id = versionID, !.is_published = TRUE]

\* UPDATE stories SET published_version_id = $2, is_published = true WHERE id = $1;
\* it waits while a transaction holds the lock of the row
PubUpdate(p) ==
  /\ proc[p].pc = "pubUpdate"
  /\ \A q \in Procs : \A r \in proc[q].w.stories : r.id # proc[p].storyID
  /\ db' = [db EXCEPT !.stories =
       {IF r.id = proc[p].storyID
        THEN PublishedRow(r, proc[p].versionArg)
        ELSE r : r \in @}]
  /\ proc' = [proc EXCEPT ![p] = Ended(p, [NoResponse EXCEPT !.ok = TRUE])]
  /\ UNCHANGED <<calls, log>>

\* a statement of AdminPublish fails (connection lost, deadline expired)
FailPublish(p) ==
  /\ proc[p].pc \in {"pubStory", "pubVersion", "pubUpdate"}
  /\ proc' = [proc EXCEPT ![p] = Failed(p, "storage error")]
  /\ UNCHANGED <<db, calls, log>>

\* the handler writes the response and ends
Return(p) ==
  /\ proc[p].pc = "done"
  /\ proc' = [proc EXCEPT ![p] = Idle]
  /\ UNCHANGED <<db, calls, log>>

(***************************************************************************)
(* The read path of the reader: queries of the committed tables.           *)
(***************************************************************************)
\* the variant of the join through the draft pointer
DraftVersionRows(d, account, slug) ==
  {x \in d.stories \X d.versions :
     /\ x[2].id = x[1].draft_version_id
     /\ x[1].account = account /\ x[1].slug = slug
     /\ x[1].draft_version_id # NULL}

\* FROM stories st JOIN story_versions v ON v.id = st.published_version_id
\* WHERE st.account_id = $1 AND st.slug = $2 AND st.published_version_id IS NOT NULL
PublishedVersionRows(d, account, slug) ==
  {x \in d.stories \X d.versions :
     /\ x[2].id = x[1].published_version_id
     /\ x[1].account = account /\ x[1].slug = slug
     /\ x[1].published_version_id # NULL}

\* Scan of the one row of a QueryRow: sql.ErrNoRows when there is none
StoryLatest(d, account, slug) ==
  LET rows == PublishedVersionRows(d, account, slug)
  IN  IF rows = {} THEN [err |-> "no rows"]
      ELSE LET x == CHOOSE x \in rows : TRUE
           IN  [err |-> "", Slug |-> x[1].slug, Title |-> x[1].title, Author |-> x[1].author,
                Version |-> x[2].version, RenderedHTML |-> x[2].rendered_html]

\* ORDER BY ordinal
RECURSIVE OrderByOrdinal(_)
OrderByOrdinal(rows) ==
  IF rows = {} THEN << >>
  ELSE LET g == CHOOSE g \in rows : \A h \in rows : g.ordinal <= h.ordinal
       IN  <<[Ordinal |-> g.ordinal, Locator |-> g.locator, RenderedHTML |-> g.rendered_html]>>
             \o OrderByOrdinal(rows \ {g})

StorySegments(d, account, slug) ==
  LET rows == PublishedVersionRows(d, account, slug)
  IN  IF rows = {} THEN [err |-> "no rows"]
      ELSE LET x == CHOOSE x \in rows : TRUE
           IN  [err |-> "", Slug |-> slug, Version |-> x[2].version,
                Segments |-> OrderByOrdinal({g \in d.segments : g.story_version_id = x[2].id})]

\* the items of Library, without their order (by updated_at, which the model
\* does not keep)
Library(d, account) ==
  {[Slug |-> st.slug, Title |-> st.title, Author |-> st.author] :
     st \in {st \in d.stories : st.account = account /\ st.published_version_id # NULL}}

Init ==
  /\ db = EmptyDb
  /\ proc = [p \in Procs |-> Idle]
  /\ calls = [upsert |-> 0, publish |-> 0, preview |-> 0]
  /\ log = {}

\* a statement of a call that handler p has started
Step(p) ==
  \/ UpsertStory(p)
  \/ HashLookup(p)
  \/ HitDraft(p)
  \/ ReadNextVersion(p)
  \/ InsertVersion(p)
  \/ InsertSection(p)
  \/ InsertSegment(p)
  \/ Draft(p)
  \/ Contributors(p)
  \/ CommitTx(p)
  \/ FailTx(p)
  \/ PubStory(p)
  \/ PubVersion(p)
  \/ PubUpdate(p)
  \/ FailPublish(p)
  \/ Return(p)

\* concurrent handlers
Next ==
  \E p \in Procs :
    \/ calls.upsert + calls.publish < MaxCalls /\ CallUpsert(p, UpsertCalls)
    \/ calls.upsert + calls.publish < MaxCalls /\ CallPublish(p, PublishCalls({k \in StoryKeys : k[1] = "acc1"}))
    \/ Step(p)

Spec == Init /\ [][Next]_vars

\* one handler, its calls in sequence
SeqNext ==
  \/ calls.upsert < MaxSeqUpserts /\ CallUpsert("h1", SeqUpsertCalls)
  \/ calls.publish < MaxSeqPublishes /\ CallPublish("h1", SeqPublishCalls)
  \/ calls.preview < MaxSeqPreviews /\ CallPreview("h1", PreviewCalls)
  \/ Step("h1")

SeqSpec == Init /\ [][SeqNext]_vars

\* one handler that ingests chaptered bodies, and requests that are rejected
SecNext ==
  \/ calls.upsert < MaxSecUpserts /\ CallUpsert("h1", SecUpsertCalls \cup RejectCalls)
  \/ UpsertStory("h1")
  \/ HashLookup("h1")
  \/ HitDraft("h1")
  \/ ReadNextVersion("h1")
  \/ InsertVersion("h1")
  \/ InsertSection("h1")
  \/ InsertSegment("h1")
  \/ Draft("h1")
  \/ Contributors("h1")
  \/ CommitTx("h1")
  \/ FailTx("h1")
  \/ Return("h1")

SecSpec == Init /\ [][SecNext]_vars

\* concurrent handlers that only ingest
IdNext ==
  \E p \in Procs :
    \/ calls.upsert < MaxIdUpserts /\ CallUpsert(p, IdUpsertCalls)
    \/ UpsertStory(p)
    \/ HashLookup(p)
    \/ HitDraft(p)
    \/ ReadNextVersion(p)
    \/ InsertVersion(p)
    \/ InsertSection(p)
    \/ InsertSegment(p)
    \/ Draft(p)
    \/ Contributors(p)
    \/ CommitTx(p)
    \/ FailTx(p)
    \/ Return(p)

IdSpec == Init /\ [][IdNext]_vars

\* calls of Ingest with a renderer that can fail, one after another
RenderNext == CallIngestWithRenderer("h1", RenderInputs) \/ Return("h1")

RenderSpec == Init /\ [][RenderNext]_vars

\* one handler that ingests and one that publishes, concurrent
PubNext ==
  \/ calls.upsert < MaxPubUpserts /\ CallUpsert("h1", PubUpsertCalls)
  \/ UpsertStory("h1")
  \/ HashLookup("h1")
  \/ HitDraft("h1")
  \/ ReadNextVersion("h1")
  \/ InsertVersion("h1")
  \/ InsertSection("h1")
  \/ InsertSegment("h1")
  \/ Draft("h1")
  \/ Contributors("h1")
  \/ CommitTx("h1")
  \/ FailTx("h1")
  \/ Return("h1")
  \/ calls.publish < MaxPubPublishes /\ CallPublish("h2", PublishCalls({<<"acc1", SlugA>>}))
  \/ PubStory("h2")
  \/ PubVersion("h2")
  \/ PubUpdate("h2")
  \/ FailPublish("h2")
  \/ Return("h2")

PubSpec == Init /\ [][PubNext]_vars

\* calls of Ingest, one after another
IngestNext == CallIngest("h1", IngestInputs) \/ Return("h1")

IngestSpec == Init /\ [][IngestNext]_vars

(***************************************************************************)
(* Properties.                                                             *)
(***************************************************************************)
\* the body of a manuscript of the model, as it was put together
BodyOf(md) == (CHOOSE x \in ManuscriptParts : Manuscript(x[1], x[2]) = md)[2]

VersionsOf(storyID) == {v \in db.versions : v.story_id = storyID}
VersionNumbers(d, storyID) == {v.version : v \in {v \in d.versions : v.story_id = storyID}}
LogOf(s) == {r \in log : r.account = s.account /\ r.slug = s.slug}

\* handler p has ended an AdminDraftUpsert with success
UpsertOk(p) == proc[p].pc = "done" /\ proc[p].op = "upsert" /\ proc[p].res.ok

\* C1: two successful AdminDraftUpsert calls for the same account and slug whose
\* manuscripts have the same body under different (or no) frontmatter return the
\* same storyVersionId and version number, and the story has one version row
\* with that body.
C1_IdempotentReingest ==
  /\ \A r1, r2 \in log :
       (r1.account = r2.account /\ r1.slug = r2.slug
          /\ BodyOf(r1.markdown) = BodyOf(r2.markdown))
       => /\ r1.res.StoryVersionID = r2.res.StoryVersionID
          /\ r1.res.Version = r2.res.Version
  /\ \A r \in log :
       Cardinality({v \in VersionsOf(r.res.StoryID) : v.markdown = BodyOf(r.markdown)}) = 1

\* both the manuscript without frontmatter and the one with it were ingested
\* for one story, and the handler has returned from the second call
C1_Witness ==
  /\ proc["h1"].pc = "done"
  /\ \E r1, r2 \in log :
       /\ r1.account = r2.account /\ r1.slug = r2.slug
       /\ r1.markdown # r2.markdown
       /\ BodyOf(r1.markdown) = BodyOf(r2.markdown)

\* C2: no story has two story_versions rows with the same content_hash, and
\* this is by resolving a re-ingest to the existing row: no call is rejected by
\* a unique constraint of story_versions.
C2_HashUnique ==
  /\ \A v1, v2 \in db.versions :
       (v1.story_id = v2.story_id /\ v1.content_hash = v2.content_hash) => v1 = v2
  /\ \A p \in Procs : proc[p].res.err # "unique violation"

\* a re-ingest found the content of the story's only version and returned
C2_Witness ==
  \E p \in Procs :
    /\ UpsertOk(p)
    /\ proc[p].existingVersionID # NULL
    /\ Cardinality(VersionsOf(proc[p].res.StoryID)) = 1

\* C3: the version numbers of a story are exactly 1..N, N the number of
\* distinct bodies ingested for it with success.
C3_GaplessNumbering ==
  \A s \in db.stories :
    VersionNumbers(db, s.id) = 1..Cardinality({BodyOf(r.markdown) : r \in LogOf(s)})

\* three successful ingests of one story, two of them of the same body: the
\* story has versions 1 and 2
C3_Witness ==
  \E s \in db.stories :
    /\ Cardinality(LogOf(s)) = 3
    /\ VersionNumbers(db, s.id) = {1, 2}

\* the committed version numbers of every story are 1..K, none twice
C4_State ==
  \A s \in db.stories : VersionNumbers(db, s.id) = 1..Cardinality(VersionsOf(s.id))

\* a step adds to a story's numbers nothing or the next number, and a step in
\* which an AdminDraftUpsert ends with an error commits nothing
C4_Step ==
  /\ \A s \in db.stories :
       \/ VersionNumbers(db', s.id) = VersionNumbers(db, s.id)
       \/ VersionNumbers(db', s.id) =
            VersionNumbers(db, s.id) \cup {Max(VersionNumbers(db, s.id) \cup {0}) + 1}
  /\ \A p \in Procs :
       (proc[p].op = "upsert" /\ proc[p].pc # "done"
          /\ proc'[p].pc = "done" /\ ~proc'[p].res.ok) => db' = db

\* C4: under concurrent AdminDraftUpsert calls, in every committed state the
\* version numbers of a story are 1..K without a duplicate; a step adds to a
\* story's numbers nothing or the next number (none is skipped or reused); and
\* a writer that ends with an error leaves none of its rows committed.
C4_ConcurrentNumbering == []C4_State /\ [][C4_Step]_vars

\* a call that started while a transaction on its story was open has committed
\* version 2
C4_Witness ==
  \E p \in Procs :
    /\ UpsertOk(p) /\ proc[p].raced
    /\ proc[p].res.Version = 2
    /\ VersionNumbers(db, proc[p].res.StoryID) = {1, 2}

\* the segments and sections that a version with this body has
ExpectedSegments(v) == WalkBlocks(ParseBlocks(v.markdown, << >>), 1, 0, 0)
ExpectedSections(v) ==
  LET n == Len(Chapters(ExpectedSegments(v), << >>)) IN IF n = 0 THEN 1 ELSE n

Complete(d, v) ==
  /\ {g.ordinal : g \in {g \in d.segments : g.story_version_id = v.id}}
       = 1..Len(ExpectedSegments(v))
  /\ {c.ordinal : c \in {c \in d.sections : c.story_version_id = v.id}}
       = 1..ExpectedSections(v)

\* C5: in the committed state, which is what a reader sees, every version has
\* all its sections and segments, and a draft pointer refers to such a version.
C5_AtomicVisibility ==
  /\ \A v \in db.versions : Complete(db, v)
  /\ \A s \in db.stories :
       s.draft_version_id # NULL =>
         \E v \in db.versions : v.id = s.draft_version_id /\ Complete(db, v)

\* a transaction has written its version and the first of its segments, while
\* a call has ended with an error after its version insert
C5_Witness ==
  \E p, q \in Procs :
    /\ proc[p].pc = "segments" /\ proc[p].i = 2 /\ proc[p].w.versions # {}
    /\ proc[q].pc = "done" /\ proc[q].res.at \in {"sections", "segments", "draft", "commit"}

\* a step of a transaction is its successful commit, or changes no committed
\* table and, when it ends the call, ends it with an error
C6_Step ==
  \A p \in Procs :
    (InTx(p) /\ proc'[p] # proc[p])
    => \/ proc[p].pc = "commit" /\ proc'[p].pc = "done" /\ proc'[p].res.ok
       \/ db' = db /\ (proc'[p].pc = "done" => ~proc'[p].res.ok)

\* C6: a step of an AdminDraftUpsert transaction other than its successful
\* commit leaves the committed tables and pointers as they are, and the step at
\* which a statement (or the commit, or the deadline) fails ends the call with
\* an error; so a failed call has committed nothing, its new story included.
C6_RollbackOnFailure == [][C6_Step]_vars

\* a call failed at its segment inserts, and the story it had inserted is not there
C6_Witness ==
  \E p \in Procs :
    /\ proc[p].pc = "done" /\ proc[p].op = "upsert"
    /\ ~proc[p].res.ok /\ proc[p].res.at = "segments"
    /\ \A s \in db.stories :
         ~(s.account = proc[p].account /\ s.slug = TrimSlug(proc[p].req.Slug))

\* a step of an AdminDraftUpsert keeps both published columns of every story,
\* and a story that the step creates is not published
C7_Step ==
  \A p \in Procs :
    (proc[p].op = "upsert" /\ proc'[p] # proc[p])
    => /\ \A s \in db.stories : \E t \in db'.stories :
            /\ t.id = s.id
            /\ t.published_version_id = s.published_version_id
            /\ t.is_published = s.is_published
       /\ \A t \in db'.stories :
            (\A s \in db.stories : s.id # t.id)
            => t.published_version_id = NULL /\ ~t.is_published

\* C7: no step of an AdminDraftUpsert, on the new-version path or on the
\* hash-hit path, changes published_version_id or is_published of a story, and
\* a story that the step creates is not published.
C7_PublishedUntouched == [][C7_Step]_vars

\* version 1 is published, and an ingest of another body made version 2 the draft
C7_Witness ==
  \E s \in db.stories : \E v1, v2 \in VersionsOf(s.id) :
    /\ v1.version = 1 /\ v2.version = 2
    /\ s.published_version_id = v1.id /\ s.is_published
    /\ s.draft_version_id = v2.id
    /\ UpsertOk("h1") /\ proc["h1"].res.StoryVersionID = v2.id

\* C8: when the handler has ended an AdminDraftUpsert with success, the story
\* of (account, slug) has draft_version_id = the returned storyVersionId, a
\* version of that story with the content hash of the ingested body.
C8_DraftPointer ==
  UpsertOk("h1") =>
    \E s \in db.stories : \E v \in db.versions :
      /\ s.account = proc["h1"].account /\ s.slug = TrimSlug(proc["h1"].req.Slug)
      /\ s.id = proc["h1"].res.StoryID
      /\ s.draft_version_id = proc["h1"].res.StoryVersionID
      /\ v.id = s.draft_version_id
      /\ v.story_id = s.id
      /\ v.version = proc["h1"].res.Version
      /\ v.content_hash = ContentHash(BodyOf(proc["h1"].req.Markdown))

\* the body of version 1 was ingested again when the story had version 2: the
\* draft pointer is back at version 1
C8_Witness ==
  /\ UpsertOk("h1")
  /\ proc["h1"].existingVersionID # NULL
  /\ proc["h1"].res.Version = 1
  /\ VersionNumbers(db, proc["h1"].res.StoryID) = {1, 2}

\* the AdminPublish of p names a version of another story than the story of its
\* account and slug
CrossStory(p) ==
  /\ proc[p].op = "publish"
  /\ \E s \in db.stories : \E v \in db.versions :
       /\ s.account = proc[p].account /\ s.slug = proc[p].slug
       /\ v.id = proc[p].versionArg /\ v.story_id # s.id

\* a step of such an AdminPublish changes no table, and ends the call only with
\* an error
C9_Step ==
  \A p \in Procs :
    (CrossStory(p) /\ proc'[p] # proc[p] /\ proc[p].pc # "done")
    => /\ db' = db
       /\ proc'[p].pc = "done"
            => /\ ~proc'[p].res.ok
               /\ \/ proc'[p].res.err = "no rows" /\ proc'[p].res.at = "pubVersion"
                  \/ proc'[p].res.err = "storage error"

\* C9: an AdminPublish that names a version of another story than the story of
\* its account and slug changes no table at any step, and it ends with an
\* error: no rows at the ownership check, or the error of a failed statement.
C9_PublishIsolation == [][C9_Step]_vars

\* such a call found no rows at its ownership check; both stories are of one account
C9_Witness ==
  /\ CrossStory("h1")
  /\ proc["h1"].pc = "done"
  /\ proc["h1"].res.err = "no rows" /\ proc["h1"].res.at = "pubVersion"
  /\ \E s \in db.stories : \E v \in db.versions :
       /\ v.id = proc["h1"].versionArg
       /\ s.id = v.story_id /\ s.account = proc["h1"].account

\* a step of an AdminPublish changes nothing but the published columns of its
\* story; one that ends with success leaves the pointer at its version; and a
\* call for the version that is published already ends with success and writes
\* the row as it was (or fails with the error of a failed statement)
C11_Step ==
  \A p \in Procs :
    (proc[p].op = "publish" /\ proc'[p] # proc[p])
    => /\ db'.versions = db.versions
       /\ db'.sections = db.sections
       /\ db'.segments = db.segments
       /\ \A s \in db.stories : \E t \in db'.stories :
            t = [s EXCEPT !.published_version_id = t.published_version_id,
                          !.is_published = t.is_published]
       /\ Cardinality(db'.stories) = Cardinality(db.stories)
       /\ (proc[p].pc # "done" /\ proc'[p].pc = "done" /\ proc'[p].res.ok)
            => \E t \in db'.stories :
                 /\ t.account = proc[p].account /\ t.slug = proc[p].slug
                 /\ t.published_version_id = proc[p].versionArg /\ t.is_published
       /\ (proc[p].again /\ proc[p].pc # "done" /\ proc'[p].pc = "done")
            => \/ proc'[p].res.ok /\ db' = db
               \/ proc'[p].res.err = "storage error"

\* C11: AdminPublish is a pure pointer swap and idempotent: it changes nothing
\* but published_version_id and is_published of its story (the draft pointer
\* and every story_versions row stay), and a second AdminPublish of the same
\* version succeeds with the published pointer still at that version.
C11_PublishIdempotent == [][C11_Step]_vars

\* the second AdminPublish of version 1 has ended with success; the draft
\* pointer of the story is at version 2
C11_Witness ==
  /\ proc["h1"].op = "publish" /\ proc["h1"].pc = "done"
  /\ proc["h1"].again /\ proc["h1"].res.ok
  /\ \E s \in db.stories :
       /\ s.account = proc["h1"].account /\ s.slug = proc["h1"].slug
       /\ s.published_version_id = proc["h1"].versionArg
       /\ s.draft_version_id # s.published_version_id

\* a step keeps every committed version row as it is, with its id, and adds or
\* removes no section or segment of a committed version
C12_Step ==
  /\ \A v \in db.versions :
       /\ v \in db'.versions
       /\ \A x \in db'.versions : x.id = v.id => x = v
       /\ {c \in db'.sections : c.story_version_id = v.id}
            = {c \in db.sections : c.story_version_id = v.id}
       /\ {g \in db'.segments : g.story_version_id = v.id}
            = {g \in db.segments : g.story_version_id = v.id}

\* C12: a committed story_versions row stays in every later state with the
\* same story, number, frontmatter, markdown, rendered HTML and content hash,
\* and with the same sections and segments, whatever AdminDraftUpsert,
\* AdminPublish and AdminPreview calls follow.
C12_VersionImmutable == [][C12_Step]_vars

\* a story has versions 1 and 2, the body of one was ingested again under another
\* frontmatter, and a version was published and a text previewed
C12_Witness ==
  /\ UpsertOk("h1") /\ proc["h1"].existingVersionID # NULL
  /\ VersionNumbers(db, proc["h1"].res.StoryID) = {1, 2}
  /\ \E v \in db.versions :
       /\ v.id = proc["h1"].res.StoryVersionID
       /\ v.frontmatter # Ing("h1").Frontmatter
  /\ calls.preview = 1
  /\ \E s \in db.stories : s.published_version_id # NULL

\* C13: there is at most one stories row per (account_id, slug), also when first
\* ingests of one (account, slug) run concurrently; successful AdminDraftUpsert
\* calls return the same storyId exactly when they are for the same account and
\* slug, and the row with that id is the row of that account and slug.
C13_StoryIdentity ==
  /\ \A s, t \in db.stories :
       ((s.account = t.account /\ s.slug = t.slug) \/ s.id = t.id) => s = t
  /\ \A r1, r2 \in log :
       (r1.account = r2.account /\ r1.slug = r2.slug) <=> (r1.res.StoryID = r2.res.StoryID)
  /\ \A r \in log : \E s \in db.stories :
       s.id = r.res.StoryID /\ s.account = r.account /\ s.slug = r.slug

\* an ingest that started while the first ingest of its (account, slug) was
\* open has found the story and the version of that ingest, the slug is a story
\* of the other account too, and there is one row per account
C13_Witness ==
  /\ \E p \in Procs :
       /\ UpsertOk(p) /\ proc[p].raced /\ proc[p].existingVersionID # NULL
  /\ {s.account : s \in db.stories} = {"acc1", "acc2"}
  /\ Cardinality(db.stories) = 2

\* what the reader is shown of a story and of an account
ReaderView(d, account, slug) ==
  [latest |-> StoryLatest(d, account, slug), segments |-> StorySegments(d, account, slug),
   library |-> Library(d, account)]

\* the reader is shown the version that published_version_id refers to, with
\* the segments of its body, and nothing of a story without a published version
C14_State ==
  \A s \in db.stories :
    LET latest == StoryLatest(db, s.account, s.slug)
        segments == StorySegments(db, s.account, s.slug)
        listed == \E it \in Library(db, s.account) : it.Slug = s.slug
    IN  IF s.published_version_id = NULL
        THEN latest.err = "no rows" /\ segments.err = "no rows" /\ ~listed
        ELSE \E v \in db.versions :
               /\ v.id = s.published_version_id
               /\ latest.err = "" /\ segments.err = "" /\ listed
               /\ latest.Version = v.version /\ segments.Version = v.version
               /\ latest.RenderedHTML = render(v.markdown)
               /\ segments.Segments = AdminSegments(ExpectedSegments(v))

\* a step of an AdminDraftUpsert changes nothing of the version, its HTML and
\* its segments that the reader is shown, and lists no story in Library
C14_Step ==
  \A p \in Procs :
    (proc[p].op = "upsert" /\ proc'[p] # proc[p])
    => \A k \in StoryKeys :
         LET before == ReaderView(db, k[1], k[2])
             after == ReaderView(db', k[1], k[2])
         IN  /\ before.segments = after.segments
             /\ before.latest.err = after.latest.err
             /\ before.latest.err = ""
                  => /\ before.latest.Version = after.latest.Version
                     /\ before.latest.RenderedHTML = after.latest.RenderedHTML
             /\ {it.Slug : it \in before.library} = {it.Slug : it \in after.library}

\* C14: StoryLatest and StorySegments return the version number, rendered HTML
\* and segments of the version that published_version_id refers to; a story
\* without a published version is not found and is not in Library; and no step
\* of an AdminDraftUpsert changes what they return.
C14_ReadThroughPublished == []C14_State /\ [][C14_Step]_vars

\* version 1 of a story is published and shown, an ingest of another body has
\* made version 2 its draft, and another story of the account is not published
C14_Witness ==
  /\ UpsertOk("h1") /\ proc["h1"].res.Version = 2
  /\ StoryLatest(db, proc["h1"].account, TrimSlug(proc["h1"].req.Slug)).err = ""
  /\ StoryLatest(db, proc["h1"].account, TrimSlug(proc["h1"].req.Slug)).Version = 1
  /\ Len(StorySegments(db, proc["h1"].account, TrimSlug(proc["h1"].req.Slug)).Segments) > 0
  /\ \E s \in db.stories : s.published_version_id = NULL

\* handler h1 has returned from Ingest with success
IngestOk == proc["h1"].op = "ingest" /\ proc["h1"].pc = "done" /\ proc["h1"].res.err = ""

\* the top-level blocks of a body that have a segment: the headings, the
\* paragraphs, and the other blocks that have source text
RECURSIVE KeptBlocks(_)
KeptBlocks(bs) ==
  IF bs = << >> THEN << >>
  ELSE (IF Head(bs).type \in {"Heading", "Paragraph"} \/ Head(bs).lines # << >>
        THEN <<Head(bs)>> ELSE << >>) \o KeptBlocks(Tail(bs))

SegmentOf(b, seg) ==
  CASE b.type = "Heading" -> LocType(seg.Locator) = "heading" /\ LocH(seg.Locator) = b.lv
    [] b.type = "Paragraph" -> LocType(seg.Locator) = "para" /\ seg.Markdown = b.lines
    [] OTHER -> LocType(seg.Locator) = "block" /\ seg.Markdown = b.lines

\* C15: for every body that Ingest accepts, the i-th segment has ordinal i and
\* is the segment of the i-th top-level block that is a heading, a paragraph or
\* another block with source text: the ordinals are 1..len(segments) in document
\* order, and a skipped block takes no ordinal.
C15_OrdinalDensity ==
  IngestOk =>
    LET segs == proc["h1"].res.Segments
        kept == KeptBlocks(ParseBlocks(proc["h1"].res.Markdown, << >>))
    IN  /\ Len(segs) = Len(kept)
        /\ \A i \in 1..Len(segs) : segs[i].Ordinal = i /\ SegmentOf(kept[i], segs[i])

\* Ingest has returned the two segments of a body with a code block, a thematic
\* break, which is skipped, and a heading
C15_Witness ==
  /\ IngestOk
  /\ proc["h1"].req.Markdown = <<Code("x"), Fence, H(2, "One")>>
  /\ Len(proc["h1"].res.Segments) = 2
  /\ proc["h1"].res.Segments[2].Ordinal = 2

\* the level-2 heading segments of a version, in document order
ChapterHeadings(v) ==
  SelectSeq(ExpectedSegments(v),
            LAMBDA seg : LocType(seg.Locator) = "heading" /\ LocH(seg.Locator) = 2)

\* C16: a version whose segments have k >= 1 level-2 headings has exactly k
\* sections, all chapters, with ordinals 1..k in the order of the headings and
\* the heading text (or "Chapter N" for a heading without text) as title; a
\* version without such a heading has exactly one section, of kind section,
\* ordinal 1, without title, and all its segments are in that section.
C16_ChapterInference ==
  \A v \in db.versions :
    LET heads == ChapterHeadings(v)
        k == Len(heads)
        secs == {c \in db.sections : c.story_version_id = v.id}
        text(i) == TrimSpace(heads[i].Markdown[1].val)
    IN  /\ Cardinality(secs) = (IF k = 0 THEN 1 ELSE k)
        /\ k = 0 =>
             /\ \A c \in secs : c.kind = "section" /\ c.ordinal = 1 /\ c.title = NullTitle
             /\ \A g \in db.segments :
                  g.story_version_id = v.id => \E c \in secs : g.section_id = c.id
        /\ \A i \in 1..k : \E c \in secs :
             /\ c.kind = "chapter" /\ c.ordinal = i
             /\ c.title = (IF text(i) = "" THEN ChapterN(i) ELSE text(i))

\* a version with a title heading and two chapters, the second named Chapter 2,
\* and a version with the one generic section are committed
C16_Witness ==
  /\ \E c \in db.sections : c.kind = "chapter" /\ c.ordinal = 2 /\ c.title = "Chapter 2"
  /\ \E c \in db.sections : c.kind = "section"
  /\ Cardinality(db.versions) = 2

\* C17: Ingest with a title that is empty after trimming and a frontmatter with
\* a non-empty title succeeds (the slug and the markdown being valid) and uses
\* the frontmatter title; it fails with the missing-title error only when the
\* title and the frontmatter title are both empty.
C17_TitleFallback ==
  (proc["h1"].op = "ingest" /\ proc["h1"].pc = "done") =>
    LET in == proc["h1"].req
        res == proc["h1"].res
        explicit == TrimSpace(in.Title)
        fmTitle == FmString(splitFrontmatter(in.Markdown).fm, "title")
    IN  /\ (explicit = "" /\ fmTitle # "" /\ ValidateSlug(TrimSlug(in.Slug)))
             => res.err = "" /\ res.Title = fmTitle
        /\ res.err = "title is required" => (explicit = "" /\ fmTitle = "")

\* the text is one or more groups of lowercase letters and digits, joined by
\* single hyphens
SlugGroups(cs) ==
  /\ cs # << >>
  /\ \A i \in 1..Len(cs) : cs[i] \in LowerAlnum \cup {"-"}
  /\ cs[1] # "-" /\ cs[Len(cs)] # "-"
  /\ \A i \in 1..(Len(cs) - 1) : ~(cs[i] = "-" /\ cs[i + 1] = "-")

\* the call of AdminDraftUpsert that starts with a slug that is not such a text
\* after trimming is rejected; a rejected call ends at once with an error, with
\* no transaction begun; and the start of a call changes no table
C18_Step ==
  \A p \in Procs :
    (proc[p].pc = "idle" /\ proc'[p].op = "upsert")
    => /\ ~SlugGroups(TrimSlug(proc'[p].req.Slug)) => proc'[p].pc = "done"
       /\ proc'[p].pc = "done" => ~proc'[p].res.ok /\ proc'[p].res.err # ""
       /\ proc'[p].pc # "done" => /\ proc'[p].pc = "upsertStory"
                                  /\ SlugGroups(TrimSlug(proc'[p].req.Slug))
                                  /\ TrimSpace(proc'[p].req.Title) # ""
                                  /\ ~AllBlank(proc'[p].req.Markdown)
       /\ db' = db
       /\ proc'[p].w = EmptyDb

\* C18: AdminDraftUpsert rejects with an error every slug that after trimming is
\* empty or is not one or more groups of lowercase letters and digits joined by
\* single hyphens; on that rejection, as on a blank title or a blank markdown,
\* no transaction is begun and the store is unchanged.
C18_SlugFailFast == [][C18_Step]_vars

\* a call with a doubled hyphen in its slug was rejected, and the story that an
\* earlier call stored is there
C18_Witness ==
  /\ proc["h1"].op = "upsert" /\ proc["h1"].pc = "done"
  /\ proc["h1"].req.Slug = <<"a", "-", "-", "b">>
  /\ proc["h1"].res.err = "invalid slug"
  /\ db.versions # {}

\* handler h1 has returned from AdminPreview with success
PreviewOk == proc["h1"].op = "preview" /\ proc["h1"].pc = "done" /\ proc["h1"].res.ok

\* the segment rows of a version as a reader of the table lists them
PersistedSegments(v) ==
  OrderByOrdinal({g \in db.segments : g.story_version_id = v.id})

\* C19: the response of AdminPreview for a markdown has the rendered HTML of
\* every version that AdminDraftUpsert has persisted for a manuscript with the
\* same body, whatever its slug, title, author and frontmatter, and the same
\* sequence of segments: count, ordinals, locators and rendered HTML.
C19_PreviewFidelity ==
  PreviewOk =>
    \A v \in db.versions :
      v.markdown = BodyOf(proc["h1"].req.Markdown)
      => /\ proc["h1"].res.RenderedHTML = v.rendered_html
         /\ proc["h1"].res.Segments = PersistedSegments(v)

\* a manuscript with frontmatter was previewed whose body is persisted, with
\* its two segments, for two stories
C19_Witness ==
  /\ PreviewOk
  /\ proc["h1"].req.Markdown = Manuscript(FmTitle, BodyFox)
  /\ Len(proc["h1"].res.Segments) = 2
  /\ Cardinality({v \in db.versions : v.markdown = BodyFox}) = 2

\* the pointer is NULL or the id of a version of story s
OwnPointer(s, ptr) == ptr = NULL \/ \E v \in db.versions : v.id = ptr /\ v.story_id = s.id

C21_State ==
  \A p, q \in Procs :
    p # q =>
      ~\E r1 \in proc[p].w.stories : \E r2 \in proc[q].w.stories :
          r1.account = r2.account /\ r1.slug = r2.slug

\* what a transaction read after its story upsert is what is committed when it
\* commits: its content was found exactly when a committed version has it, and
\* the number it read is the one after the committed numbers
C21_Step ==
  \A p \in Procs :
    /\ (proc[p].w.stories # {} /\ proc'[p].w.stories # {})
          => VersionsOf(proc[p].storyID)' = VersionsOf(proc[p].storyID)
    /\ (proc[p].pc = "commit" /\ proc'[p].pc = "done" /\ proc'[p].res.ok)
          => LET same == {v \in VersionsOf(proc[p].storyID) :
                            v.markdown = BodyOf(proc[p].req.Markdown)}
             IN  IF same # {}
                 THEN /\ proc'[p].res.StoryVersionID \in {v.id : v \in same}
                      /\ db'.versions = db.versions
                 ELSE /\ proc'[p].res.Version =
                           Cardinality(VersionsOf(proc[p].storyID)) + 1
                      /\ \E v \in db'.versions \ db.versions :
                           /\ v.id = proc'[p].res.StoryVersionID
                           /\ v.version = proc'[p].res.Version
                           /\ v.markdown = BodyOf(proc[p].req.Markdown)

\* C21: concurrent AdminDraftUpsert calls for one (account, slug) serialize at
\* the story upsert: no two transactions are past it for the same story, so the
\* second one's content-hash lookup and MAX(version)+1 read see what the first
\* committed; with distinct bodies the second commits the next number, with the
\* same body it returns the version that the first committed.
C21_Serialized == []C21_State /\ [][C21_Step]_vars

\* two handlers whose transactions on one story overlapped ingested the same
\* body: the second call returned the version that the first one created
C21_Witness ==
  \E p, q \in Procs :
    /\ p # q /\ UpsertOk(p) /\ UpsertOk(q)
    /\ proc[q].raced
    /\ proc[p].existingVersionID = NULL /\ proc[q].existingVersionID # NULL
    /\ proc[p].res.StoryVersionID = proc[q].res.StoryVersionID
    /\ proc[p].res.Version = 1 /\ proc[q].res.Version = 1

\* C22: AdminPublish is one atomic unit of work: between its story lookup and
\* its published-pointer update no other operation's commit changes the tables
\* (the lookup, the ownership check and the update are one transaction).
C22_PublishAtomic ==
  [][\A p \in Procs :
       (proc[p].op = "publish" /\ proc[p].pc \in {"pubVersion", "pubUpdate"} /\ db' # db)
         => (proc[p].pc = "pubUpdate" /\ proc'[p].pc = "done")]_vars

C24_LanguageResolution ==
  \A p \in Procs :
    UpsertOk(p) =>
      LET req == proc[p].req
          fm == splitFrontmatter(req.Markdown).fm
          expected == IF TrimSpace(req.Language) # "" THEN TrimSpace(req.Language)
                      ELSE IF FmString(fm, "language") # "" THEN FmString(fm, "language")
                      ELSE "en-GB"
      IN  /\ \A s \in db.stories : s.id = proc[p].res.StoryID => s.language = expected
          /\ proc[p].existingVersionID = NULL
               => \A v \in db.versions :
                    v.id = proc[p].res.StoryVersionID => v.frontmatter.language = expected

\* C25: the frontmatter map that Ingest returns has the keys title, author,
\* language and sourceUrl for every accepted input (one without a source URL
\* too); each of them holds the resolved value, whatever the manuscript's
\* frontmatter has under that key, and every other frontmatter key is carried
\* over unchanged.
C25_FrontmatterKeys ==
  IngestOk =>
    LET in == proc["h1"].req
        res == proc["h1"].res
        fm == splitFrontmatter(in.Markdown).fm
        out == res.Frontmatter
        url == IF TrimSpace(in.SourceURL) # "" THEN TrimSpace(in.SourceURL)
               ELSE FmString(fm, "sourceUrl")
    IN  /\ {"title", "author", "language", "sourceUrl"} \subseteq DOMAIN out
        /\ out.title = res.Title /\ out.author = res.Author /\ out.language = res.Language
        /\ out.sourceUrl = url
        /\ \A k \in DOMAIN fm \ {"title", "author", "language", "sourceUrl"} :
             k \in DOMAIN out /\ out[k] = fm[k]

\* C26: if the renderer fails on a render call made during Ingest, the render
\* of the whole body or that of one segment, Ingest returns the error and no
\* output: no record it returns has a segment without rendered HTML.
C26_RenderFailurePropagates ==
  (proc["h1"].op = "ingest" /\ proc["h1"].pc = "done") =>
    LET res == proc["h1"].res
    IN  /\ proc["h1"].fails # {} => res.err # ""
        /\ res.err = "" => \A i \in DOMAIN res.Segments : res.Segments[i].RenderedHTML # ""

\* a commit of a transaction in which a contributor statement failed ends the
\* call with an error and leaves the committed tables as they were
C27_Step ==
  \A p \in Procs :
    (proc[p].op = "upsert" /\ proc[p].pc = "commit" /\ proc[p].aborted
       /\ proc'[p].pc # "commit")
      => /\ proc'[p].pc = "done"
         /\ ~proc'[p].res.ok /\ proc'[p].res.err # ""
         /\ db' = db
         /\ \A t \in {"versions", "sections", "segments"} : proc[p].w[t] \cap db'[t] = {}
         /\ \A r \in proc[p].w.stories : r.id \notin {x.id : x \in db.stories} =>
              r.id \notin {x.id : x \in db'.stories}

\* C27: if ensuring the Contributor row or inserting the author link fails in
\* AdminDraftUpsert, on the new-version path or on the hash-hit path, the call
\* returns an error and nothing of it is committed: not the story upsert, the
\* version, its sections and segments, or the draft-pointer update.
C27_ContributorAtomic == [][C27_Step]_vars

\* the first ingest of a story failed at its commit after a contributor
\* statement had failed: the store is still empty
C27_Witness ==
  /\ proc["h1"].pc = "done" /\ proc["h1"].op = "upsert"
  /\ proc["h1"].res.err = "commit failed" /\ proc["h1"].res.at = "commit"
  /\ proc["h1"].existingVersionID = NULL
  /\ db = EmptyDb

\* C28: in the segments that Ingest returns, the i-th heading segment in
\* document order, of whatever level, has its own level and index i-1, the j-th
\* paragraph segment has n = j, and every other segment has the block tag: a
\* skipped block or a segment of another kind advances neither counter.
C28_LocatorIndices ==
  IngestOk =>
    LET segs == proc["h1"].res.Segments
        kept == KeptBlocks(ParseBlocks(proc["h1"].res.Markdown, << >>))
        before(i, type) == Cardinality({j \in 1..(i - 1) : kept[j].type = type})
    IN  /\ Len(segs) = Len(kept)
        /\ \A i \in 1..Len(segs) :
             segs[i].Locator =
               CASE kept[i].type = "Heading" ->
                      [type |-> "heading", h |-> kept[i].lv, index |-> before(i, "Heading")]
                 [] kept[i].type = "Paragraph" ->
                      [type |-> "para", n |-> before(i, "Paragraph") + 1]
                 [] OTHER -> [type |-> "block", kind |-> kept[i].type]

\* Ingest has returned the segments of a body with a code block between two
\* headings: the second heading has index 1
C28_Witness ==
  /\ IngestOk
  /\ proc["h1"].req.Markdown = <<H(1, "Fox"), Code("x"), H(2, "One")>>
  /\ Len(proc["h1"].res.Segments) = 3
  /\ proc["h1"].res.Segments[3].Locator = [type |-> "heading", h |-> 2, index |-> 1]

\* the flag of a story row, committed or written in an open transaction, is
\* true exactly when its published pointer is set
C29_State ==
  \A s \in db.stories \cup UNION {proc[p].w.stories : p \in Procs} :
    s.is_published <=> s.published_version_id # NULL

\* a committed published pointer that is set stays set
C29_Step ==
  \A s \in db.stories :
    s.published_version_id # NULL
      => \E t \in db'.stories : t.id = s.id /\ t.published_version_id # NULL /\ t.is_published

\* C29: in every state reachable from the empty store by AdminDraftUpsert and
\* AdminPublish calls, a story has is_published = true exactly when its
\* published_version_id is not NULL, and a published_version_id that is not
\* NULL is not NULL in every later state.
C29_PublishedFlag == []C29_State /\ [][C29_Step]_vars

\* a story was published at version 1 and a later ingest has moved its draft
\* pointer to version 2
C29_Witness ==
  \E s \in db.stories : \E v1, v2 \in VersionsOf(s.id) :
    /\ v1.version = 1 /\ v2.version = 2
    /\ s.is_published /\ s.published_version_id = v1.id
    /\ s.draft_version_id = v2.id
    /\ proc["h2"].pc = "done" /\ proc["h2"].op = "publish" /\ proc["h2"].res.ok

\* the commit of an AdminDraftUpsert for a story that is published: the story
\* row takes the metadata of the input, the versions stay as written, and the
\* reader sees the new title and author over the published version
C30_Step ==
  \A p \in Procs : \A s \in db.stories :
    (proc[p].op = "upsert" /\ proc[p].pc = "commit" /\ proc'[p].pc = "done"
       /\ proc'[p].res.ok /\ s.id = proc[p].storyID /\ s.published_version_id # NULL)
      => LET in == IngestInput(proc[p].req)
             old == StoryLatest(db, s.account, s.slug)
             new == StoryLatest(db', s.account, s.slug)
         IN  /\ \E t \in db'.stories :
                  /\ t.id = s.id
                  /\ t.title = in.Title /\ t.author = in.Author /\ t.language = in.Language
                  /\ t.rights = in.Rights
                  /\ t.source = IF in.SourceURL # "" THEN [url |-> in.SourceURL] ELSE << >>
                  /\ t.published_version_id = s.published_version_id
             /\ db.versions \subseteq db'.versions
             /\ \A v \in db'.versions \ db.versions : v.id = proc'[p].res.StoryVersionID
             /\ new.err = "" /\ old.err = ""
             /\ new.Title = in.Title /\ new.Author = in.Author
             /\ new.Version = old.Version /\ new.RenderedHTML = old.RenderedHTML
             /\ [Slug |-> s.slug, Title |-> in.Title, Author |-> in.Author]
                  \in Library(db', s.account)

\* C30: an AdminDraftUpsert for a published story, on the new-version path and
\* on the hash-hit path, overwrites title, author, language, rights and source
\* of the story row with the input's values and leaves every existing version,
\* its frontmatter too, as written; Library and StoryLatest then show the new
\* title and author, with no AdminPublish, over the version number and rendered
\* HTML of the published version.
C30_MetadataLeak == [][C30_Step]_vars

\* version 1 was ingested under the title Fox and published; a re-ingest of its
\* body under the title Owl has ended, and the reader sees Owl by Ann at version 1
C30_Witness ==
  /\ UpsertOk("h1") /\ proc["h1"].existingVersionID # NULL
  /\ proc["h1"].req.Title = "Owl"
  /\ \E s \in db.stories : \E v \in db.versions :
       /\ s.published_version_id = v.id /\ v.version = 1
       /\ v.frontmatter.title = "Fox" /\ s.title = "Owl"
       /\ StoryLatest(db, s.account, s.slug).Title = "Owl"
       /\ StoryLatest(db, s.account, s.slug).Author = "Ann"
       /\ StoryLatest(db, s.account, s.slug).Version = 1

====
